---- MODULE Spec2Model ----
(***************************************************************************)
(* State-machine model of the NEAR contract EcommerceContract (src/lib.rs): *)
(* pay_order, get_order, refund and the promise continuation               *)
(* transfer_callback, together with the host that resolves the transfers   *)
(* the contract schedules.                                                 *)
(***************************************************************************)
EXTENDS Integers, Sequences, FiniteSets, Bags, TLC

\* ------------------------------------------------------------------ bounds
MaxAmount == 1
MaxPending == 2
MaxAuditAmount == 2
MaxNet == 3

\* ------------------------------------------------------------ environment
OrderIds == {"o1"}
ContractAccount == "shop"
Accounts == {"shop", "alice"}
Amounts == 0..MaxAmount
\* Block timestamps are only copied into created_at, never compared or
\* computed with: two values tell a record from the one that replaces it.
Timestamps == {0, 1}
Outcomes == {"Successful", "Failed"}

\* Result lists a call of transfer_callback can see when it is not the
\* continuation of a single transfer: none (a plain call) or two (joined).
StrayResults == {<<>>, <<"Failed", "Successful">>}

\* Result lists another contract can deliver by scheduling transfer_callback
\* as the continuation of a promise of its own: a single result.
ForeignResults == {<<x>> : x \in Outcomes}

VARIABLES owner_id, orders, promises, succeeded, last, audit

vars == <<owner_id, orders, promises, succeeded, last, audit>>

\* ---------------------------------------------------------- return values
NoOrder == <<>>

Value(n) == [err |-> "none", kind |-> "Value", value |-> n, order |-> NoOrder]

PromiseValue == [err |-> "none", kind |-> "Promise", value |-> 0, order |-> NoOrder]

Panic(e) == [err |-> e, kind |-> "Panic", value |-> 0, order |-> NoOrder]

OrderValue(o) == [err |-> "none", kind |-> "Order", value |-> 0, order |-> <<o>>]

\* ------------------------------------------------------------- OrderStore
insert(os, order_id, order) ==
  [k \in (DOMAIN os) \cup {order_id} |-> IF k = order_id THEN order ELSE os[k]]

Order(order_id, payer_id, amount, received_amount, created_at) ==
  [order_id |-> order_id, payer_id |-> payer_id, amount |-> amount,
   received_amount |-> received_amount, is_completed |-> TRUE,
   is_refund |-> FALSE, created_at |-> created_at]

\* A scheduled transfer: `then` is <<order_id>> when transfer_callback(order_id)
\* is attached as the continuation and <<>> when nothing is attached.
Transfer(receiver, amount, then) ==
  [receiver |-> receiver, amount |-> amount, then |-> then]

\* --------------------------------------------------------------- handlers
\* pay_order with the deposit check off by one.
pay_order_LooseCheck(os, signer, order_id, order_amount, attached_deposit, ts) ==
  IF ~(attached_deposit + 1 >= order_amount)
  THEN [orders |-> os, promises |-> <<>>, res |-> Panic("InsufficientDeposit")]
  ELSE [orders |-> insert(os, order_id,
                          Order(order_id, signer, order_amount, attached_deposit, ts)),
        promises |-> <<>>,
        res |-> Value(0)]

\* pay_order recording the requested amount as the received amount.
pay_order_ReceivedIsAmount(os, signer, order_id, order_amount, attached_deposit, ts) ==
  IF ~(attached_deposit >= order_amount)
  THEN [orders |-> os, promises |-> <<>>, res |-> Panic("InsufficientDeposit")]
  ELSE LET order == Order(order_id, signer, order_amount, order_amount, ts)
       IN IF attached_deposit > order_amount
          THEN [orders |-> insert(os, order_id, order),
                promises |-> <<Transfer(signer, attached_deposit - order_amount, <<>>)>>,
                res |-> Value(attached_deposit - order_amount)]
          ELSE [orders |-> insert(os, order_id, order),
                promises |-> <<>>,
                res |-> Value(0)]

\* pay_order reconciling the change transfer like a refund.
pay_order_ChangeWithCallback(os, signer, order_id, order_amount, attached_deposit, ts) ==
  IF ~(attached_deposit >= order_amount)
  THEN [orders |-> os, promises |-> <<>>, res |-> Panic("InsufficientDeposit")]
  ELSE LET order == Order(order_id, signer, order_amount, attached_deposit, ts)
       IN IF attached_deposit > order_amount
          THEN [orders |-> insert(os, order_id, order),
                promises |-> <<Transfer(signer, attached_deposit - order_amount,
                                        <<order_id>>)>>,
                res |-> Value(attached_deposit - order_amount)]
          ELSE [orders |-> insert(os, order_id, order),
                promises |-> <<>>,
                res |-> Value(0)]

\* pay_order keeping the refund mark of the record it replaces.
pay_order_KeepRefundMark(os, signer, order_id, order_amount, attached_deposit, ts) ==
  IF ~(attached_deposit >= order_amount)
  THEN [orders |-> os, promises |-> <<>>, res |-> Panic("InsufficientDeposit")]
  ELSE LET fresh == Order(order_id, signer, order_amount, attached_deposit, ts)
           order == IF order_id \in DOMAIN os
                    THEN [fresh EXCEPT !.is_refund = os[order_id].is_refund]
                    ELSE fresh
       IN IF attached_deposit > order_amount
          THEN [orders |-> insert(os, order_id, order),
                promises |-> <<Transfer(signer, attached_deposit - order_amount, <<>>)>>,
                res |-> Value(attached_deposit - order_amount)]
          ELSE [orders |-> insert(os, order_id, order),
                promises |-> <<>>,
                res |-> Value(0)]

\* pay_order recording a short deposit as an order that is not completed.
pay_order_RecordsShortfall(os, signer, order_id, order_amount, attached_deposit, ts) ==
  IF ~(attached_deposit >= order_amount)
  THEN [orders |-> insert(os, order_id,
                          [Order(order_id, signer, order_amount, attached_deposit, ts)
                             EXCEPT !.is_completed = FALSE]),
        promises |-> <<>>,
        res |-> Value(0)]
  ELSE LET order == Order(order_id, signer, order_amount, attached_deposit, ts)
       IN IF attached_deposit > order_amount
          THEN [orders |-> insert(os, order_id, order),
                promises |-> <<Transfer(signer, attached_deposit - order_amount, <<>>)>>,
                res |-> Value(attached_deposit - order_amount)]
          ELSE [orders |-> insert(os, order_id, order),
                promises |-> <<>>,
                res |-> Value(0)]

pay_order(os, signer, order_id, order_amount, attached_deposit, ts) ==
  IF ~(attached_deposit >= order_amount)
  THEN [orders |-> os, promises |-> <<>>, res |-> Panic("InsufficientDeposit")]
  ELSE LET order == Order(order_id, signer, order_amount, attached_deposit, ts)
       IN IF attached_deposit > order_amount
          THEN [orders |-> insert(os, order_id, order),
                promises |-> <<Transfer(signer, attached_deposit - order_amount, <<>>)>>,
                res |-> Value(attached_deposit - order_amount)]
          ELSE [orders |-> insert(os, order_id, order),
                promises |-> <<>>,
                res |-> Value(0)]

get_order(os, order_id) ==
  IF order_id \in DOMAIN os THEN OrderValue(os[order_id]) ELSE Panic("NotFound")

\* refund looking the order up before checking the caller.
refund_LookupFirst(os, owner, predecessor, order_id) ==
  IF order_id \notin DOMAIN os
  THEN [orders |-> os, promises |-> <<>>, res |-> Panic("NotFound")]
  ELSE IF predecessor # owner
  THEN [orders |-> os, promises |-> <<>>, res |-> Panic("Unauthorized")]
  ELSE LET order == os[order_id]
       IN IF ~(order.is_completed /\ ~order.is_refund)
          THEN [orders |-> os, promises |-> <<>>, res |-> Panic("InvalidState")]
          ELSE LET marked == [order EXCEPT !.is_refund = TRUE]
               IN IF marked.amount > 0
                  THEN [orders |-> insert(os, order_id, marked),
                        promises |-> <<Transfer(marked.payer_id, marked.amount, <<order_id>>)>>,
                        res |-> PromiseValue]
                  ELSE [orders |-> insert(os, order_id, marked),
                        promises |-> <<>>,
                        res |-> Value(0)]

\* refund paying the caller instead of the payer of the order.
refund_PayCaller(os, owner, predecessor, order_id) ==
  IF predecessor # owner
  THEN [orders |-> os, promises |-> <<>>, res |-> Panic("Unauthorized")]
  ELSE IF order_id \notin DOMAIN os
  THEN [orders |-> os, promises |-> <<>>, res |-> Panic("NotFound")]
  ELSE LET order == os[order_id]
       IN IF ~(order.is_completed /\ ~order.is_refund)
          THEN [orders |-> os, promises |-> <<>>, res |-> Panic("InvalidState")]
          ELSE LET marked == [order EXCEPT !.is_refund = TRUE]
               IN IF marked.amount > 0
                  THEN [orders |-> insert(os, order_id, marked),
                        promises |-> <<Transfer(predecessor, marked.amount, <<order_id>>)>>,
                        res |-> PromiseValue]
                  ELSE [orders |-> insert(os, order_id, marked),
                        promises |-> <<>>,
                        res |-> Value(0)]

\* refund issuing the transfer whatever the amount.
refund_AlwaysTransfer(os, owner, predecessor, order_id) ==
  IF predecessor # owner
  THEN [orders |-> os, promises |-> <<>>, res |-> Panic("Unauthorized")]
  ELSE IF order_id \notin DOMAIN os
  THEN [orders |-> os, promises |-> <<>>, res |-> Panic("NotFound")]
  ELSE LET order == os[order_id]
       IN IF ~(order.is_completed /\ ~order.is_refund)
          THEN [orders |-> os, promises |-> <<>>, res |-> Panic("InvalidState")]
          ELSE LET marked == [order EXCEPT !.is_refund = TRUE]
               IN [orders |-> insert(os, order_id, marked),
                   promises |-> <<Transfer(marked.payer_id, marked.amount, <<order_id>>)>>,
                   res |-> PromiseValue]

refund(os, owner, predecessor, order_id) ==
  IF predecessor # owner
  THEN [orders |-> os, promises |-> <<>>, res |-> Panic("Unauthorized")]
  ELSE IF order_id \notin DOMAIN os
  THEN [orders |-> os, promises |-> <<>>, res |-> Panic("NotFound")]
  ELSE LET order == os[order_id]
       IN IF ~(order.is_completed /\ ~order.is_refund)
          THEN [orders |-> os, promises |-> <<>>, res |-> Panic("InvalidState")]
          ELSE LET marked == [order EXCEPT !.is_refund = TRUE]
               IN IF marked.amount > 0
                  THEN [orders |-> insert(os, order_id, marked),
                        promises |-> <<Transfer(marked.payer_id, marked.amount, <<order_id>>)>>,
                        res |-> PromiseValue]
                  ELSE [orders |-> insert(os, order_id, marked),
                        promises |-> <<>>,
                        res |-> Value(0)]

\* transfer_callback confirming the mark with a write when the transfer succeeded.
transfer_callback_ConfirmWrite(os, predecessor, order_id, results) ==
  IF predecessor # ContractAccount
  THEN [orders |-> os, res |-> Panic("PrivateMethod")]
  ELSE IF Len(results) # 1
  THEN [orders |-> os, res |-> Panic("ProtocolViolation")]
  ELSE IF results[1] = "NotReady"
  THEN [orders |-> os, res |-> Panic("Unreachable")]
  ELSE IF order_id \notin DOMAIN os
  THEN [orders |-> os, res |-> Panic("NotFound")]
  ELSE IF results[1] = "Successful"
  THEN [orders |-> insert(os, order_id, [os[order_id] EXCEPT !.is_refund = TRUE]),
        res |-> Value(0)]
  ELSE LET order == [os[order_id] EXCEPT !.is_refund = FALSE]
       IN [orders |-> insert(os, order_id, order), res |-> Value(order.amount)]

\* transfer_callback reading the first result without checking the count.
transfer_callback_NoCountCheck(os, predecessor, order_id, results) ==
  IF predecessor # ContractAccount
  THEN [orders |-> os, res |-> Panic("PrivateMethod")]
  ELSE IF Len(results) = 0
  THEN [orders |-> os, res |-> Panic("Unreachable")]
  ELSE IF results[1] = "Successful"
  THEN [orders |-> os, res |-> Value(0)]
  ELSE IF order_id \notin DOMAIN os
  THEN [orders |-> os, res |-> Panic("NotFound")]
  ELSE LET order == [os[order_id] EXCEPT !.is_refund = FALSE]
       IN [orders |-> insert(os, order_id, order), res |-> Value(order.amount)]

\* transfer_callback returning the amount of a failed transfer without
\* storing the cleared mark.
transfer_callback_NoRollback(os, predecessor, order_id, results) ==
  IF predecessor # ContractAccount
  THEN [orders |-> os, res |-> Panic("PrivateMethod")]
  ELSE IF Len(results) # 1
  THEN [orders |-> os, res |-> Panic("ProtocolViolation")]
  ELSE IF results[1] = "NotReady"
  THEN [orders |-> os, res |-> Panic("Unreachable")]
  ELSE IF results[1] = "Successful"
  THEN [orders |-> os, res |-> Value(0)]
  ELSE IF order_id \notin DOMAIN os
  THEN [orders |-> os, res |-> Panic("NotFound")]
  ELSE [orders |-> os, res |-> Value(os[order_id].amount)]

\* transfer_callback clearing the completed flag too when the transfer failed.
transfer_callback_ResetRecord(os, predecessor, order_id, results) ==
  IF predecessor # ContractAccount
  THEN [orders |-> os, res |-> Panic("PrivateMethod")]
  ELSE IF Len(results) # 1
  THEN [orders |-> os, res |-> Panic("ProtocolViolation")]
  ELSE IF results[1] = "NotReady"
  THEN [orders |-> os, res |-> Panic("Unreachable")]
  ELSE IF results[1] = "Successful"
  THEN [orders |-> os, res |-> Value(0)]
  ELSE IF order_id \notin DOMAIN os
  THEN [orders |-> os, res |-> Panic("NotFound")]
  ELSE LET order == [os[order_id] EXCEPT !.is_refund = FALSE,
                                         !.is_completed = FALSE]
       IN [orders |-> insert(os, order_id, order), res |-> Value(order.amount)]

\* transfer_callback without the #[private] check.
transfer_callback_Public(os, predecessor, order_id, results) ==
  IF Len(results) # 1
  THEN [orders |-> os, res |-> Panic("ProtocolViolation")]
  ELSE IF results[1] = "NotReady"
  THEN [orders |-> os, res |-> Panic("Unreachable")]
  ELSE IF results[1] = "Successful"
  THEN [orders |-> os, res |-> Value(0)]
  ELSE IF order_id \notin DOMAIN os
  THEN [orders |-> os, res |-> Panic("NotFound")]
  ELSE LET order == [os[order_id] EXCEPT !.is_refund = FALSE]
       IN [orders |-> insert(os, order_id, order), res |-> Value(order.amount)]

transfer_callback(os, predecessor, order_id, results) ==
  IF predecessor # ContractAccount
  THEN [orders |-> os, res |-> Panic("PrivateMethod")]
  ELSE IF Len(results) # 1
  THEN [orders |-> os, res |-> Panic("ProtocolViolation")]
  ELSE IF results[1] = "NotReady"
  THEN [orders |-> os, res |-> Panic("Unreachable")]
  ELSE IF results[1] = "Successful"
  THEN [orders |-> os, res |-> Value(0)]
  ELSE IF order_id \notin DOMAIN os
  THEN [orders |-> os, res |-> Panic("NotFound")]
  ELSE LET order == [os[order_id] EXCEPT !.is_refund = FALSE]
       IN [orders |-> insert(os, order_id, order), res |-> Value(order.amount)]

\* ------------------------------------------------------------------ state
\* The values of env:: (signer, predecessor, attached deposit, block
\* timestamp, promise results) are inputs of the call that reads them.
\* `promises` is the bag of transfers the host has not resolved yet,
\* `succeeded` the identifiers whose refund transfer the host reported
\* Successful, and `last` the most recent call with its outcome.
Call(op, caller, order_id, amount, deposit, results, transfer, res) ==
  [op |-> op, caller |-> caller, order_id |-> order_id, amount |-> amount,
   deposit |-> deposit, results |-> results, transfer |-> transfer, res |-> res]

Scheduled(ps) == IF ps = <<>> THEN EmptyBag ELSE SetToBag({ps[1]})

\* `audit` is the ledger an observer of the calls keeps; the contract never
\* reads it.  Per order identifier, counted since pay_order wrote the stored
\* record: marks (refunded false -> true writes), unmarks (true -> false
\* writes), paid (refund transfers issued for that record that resolved
\* Successful), each counted up to 2; retry follows a rollback to the owner's
\* next refund.  fresh is the part of `promises` issued by refund for the
\* records now stored, net the amounts retained by accepted payments minus
\* the amounts of the refund transfers that resolved Successful.
AuditInit ==
  [marks |-> [o \in OrderIds |-> 0],
   unmarks |-> [o \in OrderIds |-> 0],
   paid |-> [o \in OrderIds |-> 0],
   retry |-> [o \in OrderIds |-> "none"],
   fresh |-> EmptyBag,
   net |-> 0]

Init ==
  /\ owner_id = ContractAccount
  /\ orders = <<>>
  /\ promises = EmptyBag
  /\ succeeded = {}
  /\ last = Call("new", owner_id, "", 0, 0, <<>>, <<>>, Value(0))
  /\ audit = AuditInit

\* ---------------------------------------------------------------- actions
PayOrder(signer, order_id, order_amount, attached_deposit, block_timestamp) ==
  LET r == pay_order(orders, signer, order_id, order_amount, attached_deposit,
                     block_timestamp)
  IN /\ BagCardinality(promises) + Len(r.promises) <= MaxPending
     /\ orders' = r.orders
     /\ promises' = promises (+) Scheduled(r.promises)
     /\ last' = Call("pay_order", signer, order_id, order_amount,
                     attached_deposit, <<>>, r.promises, r.res)
     /\ UNCHANGED <<owner_id, succeeded>>

GetOrder(order_id) ==
  /\ last' = Call("get_order", ContractAccount, order_id, 0, 0, <<>>, <<>>,
                  get_order(orders, order_id))
  /\ UNCHANGED <<owner_id, orders, promises, succeeded>>

Refund(predecessor, order_id) ==
  LET r == refund(orders, owner_id, predecessor, order_id)
  IN /\ BagCardinality(promises) + Len(r.promises) <= MaxPending
     /\ orders' = r.orders
     /\ promises' = promises (+) Scheduled(r.promises)
     /\ last' = Call("refund", predecessor, order_id, 0, 0, <<>>, r.promises,
                     r.res)
     /\ UNCHANGED <<owner_id, succeeded>>

\* The host resolves the transfer of a refund and runs its continuation.
TransferResolved(t, outcome) ==
  /\ BagIn(t, promises)
  /\ t.then # <<>>
  /\ LET order_id == t.then[1]
         r == transfer_callback(orders, ContractAccount, order_id, <<outcome>>)
     IN /\ orders' = r.orders
        /\ promises' = promises (-) SetToBag({t})
        /\ succeeded' = IF outcome = "Successful"
                        THEN succeeded \cup {order_id} ELSE succeeded
        /\ last' = Call("transfer_callback", ContractAccount, order_id, 0, 0,
                        <<outcome>>, <<t>>, r.res)
  /\ UNCHANGED owner_id

\* The host resolves a transfer that has no continuation (change of pay_order).
ChangeResolved(t, outcome) ==
  /\ BagIn(t, promises)
  /\ t.then = <<>>
  /\ promises' = promises (-) SetToBag({t})
  /\ last' = Call("change_resolved", ContractAccount, "", 0, 0, <<outcome>>,
                  <<t>>, Value(0))
  /\ UNCHANGED <<owner_id, orders, succeeded>>

\* transfer_callback called by an account directly, or with a joined result list.
StrayCallback(predecessor, order_id, results) ==
  LET r == transfer_callback(orders, predecessor, order_id, results)
  IN /\ results \in StrayResults
          \/ (predecessor # ContractAccount /\ results \in ForeignResults)
     /\ orders' = r.orders
     /\ last' = Call("transfer_callback", predecessor, order_id, 0, 0, results,
                     <<>>, r.res)
     /\ UNCHANGED <<owner_id, promises, succeeded>>

Next ==
  \/ \E s \in Accounts, o \in OrderIds, a \in Amounts, d \in Amounts,
          ts \in Timestamps :
       PayOrder(s, o, a, d, ts) /\ UNCHANGED audit
  \/ \E o \in OrderIds : GetOrder(o) /\ UNCHANGED audit
  \/ \E c \in Accounts, o \in OrderIds : Refund(c, o) /\ UNCHANGED audit
  \/ \E t \in BagToSet(promises), x \in Outcomes :
       TransferResolved(t, x) /\ UNCHANGED audit
  \/ \E t \in BagToSet(promises), x \in Outcomes :
       ChangeResolved(t, x) /\ UNCHANGED audit
  \/ \E c \in Accounts, o \in OrderIds, rs \in StrayResults \cup ForeignResults :
       StrayCallback(c, o, rs) /\ UNCHANGED audit

Spec == Init /\ [][Next]_vars

TypeOK ==
  /\ owner_id \in Accounts
  /\ DOMAIN orders \subseteq OrderIds
  /\ BagCardinality(promises) <= MaxPending
  /\ \A o \in DOMAIN orders : orders[o].created_at \in Timestamps
  /\ succeeded \subseteq OrderIds

\* The transfers refund can schedule.
RefundTransfers ==
  {Transfer(p, a, <<o>>) : p \in Accounts, a \in 1..MaxAmount, o \in OrderIds}

\* The host resolves every transfer it was asked to make: each pending refund
\* transfer gets one outcome, and its continuation runs.
FairSpec ==
  /\ Init
  /\ [][Next]_vars
  /\ \A t \in RefundTransfers :
       WF_vars(\E x \in Outcomes : TransferResolved(t, x) /\ UNCHANGED audit)

\* ------------------------------------------------------------ the ledger
AuditAmounts == 0..MaxAuditAmount

UpTo2(n) == IF n > 2 THEN 2 ELSE n

NetFloor(n) == IF n < 0 THEN 0 - 1 ELSE n

\* retry of a step that is neither a rollback nor the owner's refund after one.
Settle(r) == IF r \in {"retried", "refused"} THEN "none" ELSE r

Settled(a) == [a EXCEPT !.retry = [o \in OrderIds |-> Settle(a.retry[o])]]

\* The transfers of a bag that are not continued by transfer_callback(order_id).
NotOf(bag, order_id) ==
  [t \in {u \in DOMAIN bag : u.then # <<order_id>>} |-> bag[t]]

AuditPayOrder(order_id, order_amount, attached_deposit) ==
  IF attached_deposit >= order_amount
  THEN /\ audit.net + order_amount <= MaxNet
       /\ audit' = [Settled(audit) EXCEPT
                      !.marks[order_id] = 0,
                      !.unmarks[order_id] = 0,
                      !.paid[order_id] = 0,
                      !.fresh = NotOf(audit.fresh, order_id),
                      !.net = audit.net + order_amount]
  ELSE audit' = Settled(audit)

AuditRefund(predecessor, order_id) ==
  LET r == refund(orders, owner_id, predecessor, order_id)
      accepted == r.res.err = "none"
  IN audit' = [Settled(audit) EXCEPT
                 !.marks[order_id] = IF accepted THEN UpTo2(@ + 1) ELSE @,
                 !.fresh = IF accepted THEN @ (+) Scheduled(r.promises) ELSE @,
                 !.retry[order_id] =
                    IF predecessor = owner_id /\ audit.retry[order_id] = "rolled_back"
                    THEN (IF accepted THEN "retried" ELSE "refused")
                    ELSE @]

\* is_fresh tells whether the resolved transfer was issued for the record now
\* stored or for a record pay_order has replaced since.
AuditTransferResolved(t, outcome, is_fresh) ==
  LET order_id == t.then[1]
      was_marked == order_id \in DOMAIN orders /\ orders[order_id].is_refund
  IN /\ is_fresh => BagIn(t, audit.fresh)
     /\ ~is_fresh => CopiesIn(t, promises) > CopiesIn(t, audit.fresh)
     /\ audit' = [Settled(audit) EXCEPT
                    !.unmarks[order_id] =
                       IF outcome = "Failed" /\ was_marked THEN UpTo2(@ + 1) ELSE @,
                    !.paid[order_id] =
                       IF outcome = "Successful" /\ is_fresh THEN UpTo2(@ + 1) ELSE @,
                    !.fresh = IF is_fresh THEN @ (-) SetToBag({t}) ELSE @,
                    !.net = IF outcome = "Successful"
                            THEN NetFloor(@ - t.amount) ELSE @,
                    !.retry[order_id] =
                       IF outcome = "Failed" THEN "rolled_back" ELSE @]

\* The ledger follows payments of the exact amount and short payments, made
\* in one block; change transfers and timestamps are exercised by Next.
AuditNext ==
  \/ \E s \in Accounts, o \in OrderIds, a \in AuditAmounts, d \in AuditAmounts :
       /\ d \in {a, a - 1}
       /\ PayOrder(s, o, a, d, 0)
       /\ AuditPayOrder(o, a, d)
  \/ \E o \in OrderIds : GetOrder(o) /\ audit' = Settled(audit)
  \/ \E c \in Accounts, o \in OrderIds : Refund(c, o) /\ AuditRefund(c, o)
  \/ \E t \in BagToSet(promises), x \in Outcomes, f \in BOOLEAN :
       TransferResolved(t, x) /\ AuditTransferResolved(t, x, f)
  \/ \E c \in Accounts, o \in OrderIds, rs \in StrayResults \cup ForeignResults :
       StrayCallback(c, o, rs) /\ audit' = Settled(audit)

AuditSpec == Init /\ [][AuditNext]_vars

\* ----------------------------------------------------- helpers of claims
RefundCall(c) == c.op = "refund"

PayCall(c) == c.op = "pay_order"

\* transfer_callback run past the private-method check.
CallbackCall(c) == c.op = "transfer_callback" /\ c.caller = ContractAccount

\* A transfer scheduled by refund for order_id is still unresolved.
RefundInFlight(order_id) ==
  \E t \in BagToSet(promises) : t.then = <<order_id>>

Stored(order_id) == order_id \in DOMAIN orders

RECURSIVE RefundAmount(_, _)
\* The sum of the amounts of the transfers of bag in S that refund an order.
RefundAmount(bag, S) ==
  IF S = {} THEN 0
  ELSE LET t == CHOOSE u \in S : TRUE
       IN (IF t.then = <<>> THEN 0 ELSE t.amount * bag[t])
            + RefundAmount(bag, S \ {t})

\* ------------------------------------------------------------------ claims

\* C1: a refund by the owner while a refund transfer for the same order_id is
\* unresolved, or on an order whose stored refunded flag is true, fails with
\* InvalidState, leaves the order store unchanged and issues no transfer.
C1_NoRefundWhileInFlight ==
  [][(RefundCall(last') /\ last'.caller = owner_id
        /\ (RefundInFlight(last'.order_id)
              \/ (Stored(last'.order_id) /\ orders[last'.order_id].is_refund)))
       => (last'.res = Panic("InvalidState")
             /\ orders' = orders /\ promises' = promises)]_vars

\* C2: when transfer_callback runs with a Failed outcome, the stored refunded
\* flag becomes false and the value returned is the amount of the order for
\* which the resolved refund transfer was issued.
C2_FailureReturnsOriginalAmount ==
  (CallbackCall(last) /\ last.results = <<"Failed">> /\ last.transfer # <<>>)
    => (/\ Stored(last.order_id)
        /\ ~orders[last.order_id].is_refund
        /\ last.res = Value(last.transfer[1].amount))

\* C3: once the gateway has reported Success for the refund transfer of an
\* order identifier, that order's refunded flag is true in every later state.
C3_RefundedIsTerminal ==
  \A o \in succeeded : Stored(o) /\ orders[o].is_refund

\* C4: a refund by the owner on a stored order with completed = true,
\* refunded = false and amount > 0 persists refunded = true, registers exactly
\* one transfer of order.amount to order.payer_id continued by
\* transfer_callback(order_id), and returns a promise, not a value.
C4_RefundOptimisticCommit ==
  [][\A o \in OrderIds :
       (RefundCall(last') /\ last'.order_id = o /\ last'.caller = owner_id
          /\ Stored(o) /\ orders[o].is_completed /\ ~orders[o].is_refund
          /\ orders[o].amount > 0)
       => (/\ orders' = insert(orders, o, [orders[o] EXCEPT !.is_refund = TRUE])
           /\ promises' = promises (+)
                SetToBag({[receiver |-> orders[o].payer_id,
                           amount |-> orders[o].amount, then |-> <<o>>]})
           /\ last'.res.err = "none"
           /\ last'.res.kind = "Promise")]_vars

C4_Witness ==
  /\ RefundCall(last) /\ last.res.kind = "Promise"
  /\ Stored(last.order_id)
  /\ orders[last.order_id].is_refund
  /\ orders[last.order_id].amount > 0
  /\ orders[last.order_id].payer_id # last.caller
  /\ BagIn([receiver |-> orders[last.order_id].payer_id,
            amount |-> orders[last.order_id].amount,
            then |-> <<last.order_id>>], promises)

\* C5: when transfer_callback runs with a Successful outcome it returns 0 and
\* leaves the whole order store unchanged.
C5_SuccessChangesNothing ==
  [][(CallbackCall(last') /\ last'.results = <<"Successful">>)
       => (last'.res = Value(0) /\ orders' = orders)]_vars

\* The callback reports success for a transfer whose order was paid again
\* (its mark cleared) in the meantime.
C5_Witness ==
  /\ CallbackCall(last) /\ last.results = <<"Successful">>
  /\ last.transfer # <<>>
  /\ last.res = Value(0)
  /\ Stored(last.order_id) /\ ~orders[last.order_id].is_refund

\* C6: refund rejects with the first failing precondition in the order
\* caller-is-owner, order-exists, completed-and-not-refunded; a non-owner gets
\* Unauthorized also for an order that does not exist, the owner gets NotFound
\* for an order that does not exist; every rejection leaves the order store
\* unchanged and issues no transfer.
C6_RefundPreconditionOrder ==
  [][RefundCall(last') =>
       LET o == last'.order_id
           expected ==
             IF last'.caller # owner_id THEN "Unauthorized"
             ELSE IF ~Stored(o) THEN "NotFound"
             ELSE IF ~(orders[o].is_completed /\ ~orders[o].is_refund)
                  THEN "InvalidState"
             ELSE "none"
       IN /\ last'.res.err = expected
          /\ expected # "none" => (orders' = orders /\ promises' = promises)]_vars

C6_Witness ==
  /\ RefundCall(last)
  /\ last.caller # owner_id
  /\ ~Stored(last.order_id)
  /\ last.res = Panic("Unauthorized")

\* C7: after pay_order(order_id, amount) with attached_value >= amount the
\* record stored under order_id has the requested amount, received_amount =
\* attached_value, payer = the signer, completed = true, refunded = false,
\* and get_order(order_id) returns that record.
C7_PayOrderRecord ==
  (PayCall(last) /\ last.deposit >= last.amount)
    => (/\ Stored(last.order_id)
        /\ orders[last.order_id].order_id = last.order_id
        /\ orders[last.order_id].amount = last.amount
        /\ orders[last.order_id].received_amount = last.deposit
        /\ orders[last.order_id].payer_id = last.caller
        /\ orders[last.order_id].is_completed
        /\ ~orders[last.order_id].is_refund
        /\ get_order(orders, last.order_id).err = "none"
        /\ get_order(orders, last.order_id).order = <<orders[last.order_id]>>)

C7_Witness ==
  /\ PayCall(last) /\ last.deposit > last.amount
  /\ last.res.err = "none"
  /\ Stored(last.order_id)
  /\ orders[last.order_id].received_amount = last.deposit
  /\ orders[last.order_id].received_amount # orders[last.order_id].amount

\* C8: pay_order with attached_value < amount fails with InsufficientDeposit
\* and writes nothing: the order store is unchanged (get_order answers as
\* before) and no transfer is scheduled.
C8_InsufficientDepositNoWrite ==
  [][(PayCall(last') /\ last'.deposit < last'.amount)
       => (/\ last'.res = Panic("InsufficientDeposit")
           /\ orders' = orders
           /\ promises' = promises
           /\ get_order(orders', last'.order_id) = get_order(orders, last'.order_id))]_vars

C8_Witness ==
  /\ PayCall(last) /\ last.deposit < last.amount
  /\ last.res = Panic("InsufficientDeposit")
  /\ get_order(orders, last.order_id) = Panic("NotFound")

C10_ResultCountChecked ==
  [][(CallbackCall(last') /\ Len(last'.results) # 1)
       => (last'.res = Panic("ProtocolViolation") /\ orders' = orders)]_vars

\* Two results, the first Failed, delivered for an order that is marked refunded.
C10_Witness ==
  /\ CallbackCall(last) /\ Len(last.results) > 1
  /\ last.res = Panic("ProtocolViolation")
  /\ Stored(last.order_id) /\ orders[last.order_id].is_refund

\* C11: transfer_callback takes effect only as the continuation the contract
\* registered for a refund transfer: every other invocation is rejected (a
\* caller other than the contract by the private-method check) and leaves
\* every order's refunded flag as it was.
C11_CallbackIsPrivate ==
  [][(last'.op = "transfer_callback" /\ last'.transfer = <<>>)
       => (/\ last'.res.kind = "Panic"
           /\ last'.caller # ContractAccount => last'.res = Panic("PrivateMethod")
           /\ orders' = orders)]_vars

\* Another contract delivers a Failed result for an order marked refunded.
C11_Witness ==
  /\ last.op = "transfer_callback" /\ last.transfer = <<>>
  /\ last.caller # ContractAccount
  /\ last.results = <<"Failed">>
  /\ last.res.kind = "Panic"
  /\ Stored(last.order_id) /\ orders[last.order_id].is_refund

\* C12: an accepted pay_order returns attached_value - amount and schedules a
\* transfer of exactly that difference to the payer if and only if
\* attached_value > amount; the transfer has no continuation and its
\* resolution leaves the order store unchanged.
C12_ChangeIsFireAndForget ==
  [][/\ (PayCall(last') /\ last'.deposit >= last'.amount)
          => (/\ last'.res = Value(last'.deposit - last'.amount)
              /\ promises' = promises (+)
                   (IF last'.deposit > last'.amount
                    THEN SetToBag({[receiver |-> last'.caller,
                                    amount |-> last'.deposit - last'.amount,
                                    then |-> <<>>]})
                    ELSE EmptyBag))
     /\ (\A t \in BagToSet(promises) :
           (t.then = <<>> /\ promises' = promises (-) SetToBag({t})
              /\ last'.transfer = <<t>>)
           => orders' = orders)]_vars

\* The change transfer of a payment failed while the order is stored.
C12_Witness ==
  /\ last.op = "change_resolved"
  /\ last.results = <<"Failed">>
  /\ last.transfer # <<>> /\ last.transfer[1].then = <<>>
  /\ last.transfer[1].amount > 0
  /\ \E o \in OrderIds : Stored(o) /\ orders[o].received_amount > orders[o].amount

\* C14: pay_order on an identifier that already has a record replaces the
\* record by exactly the record of the new payment (payer, amount,
\* received_amount, timestamp, completed = true, refunded = false), also when
\* the previous record was marked refunded or has a refund transfer in flight.
C14_PayOrderOverwrites ==
  [][\A ts \in Timestamps :
       (/\ PayCall(last')
        /\ PayOrder(last'.caller, last'.order_id, last'.amount, last'.deposit, ts)
        /\ last'.deposit >= last'.amount
        /\ Stored(last'.order_id))
       => orders' = [k \in DOMAIN orders |->
                       IF k = last'.order_id
                       THEN [order_id |-> k, payer_id |-> last'.caller,
                             amount |-> last'.amount,
                             received_amount |-> last'.deposit,
                             is_completed |-> TRUE, is_refund |-> FALSE,
                             created_at |-> ts]
                       ELSE orders[k]]]_vars

\* A payment replaced a record whose refund transfer is still in flight.
C14_Witness ==
  /\ PayCall(last) /\ last.res.err = "none"
  /\ RefundInFlight(last.order_id)
  /\ ~orders[last.order_id].is_refund
  /\ \E t \in BagToSet(promises) :
       /\ t.then = <<last.order_id>>
       /\ t.receiver # orders[last.order_id].payer_id

\* C15: in every reachable state at most one refund transfer per order
\* identifier is unresolved.
C15_OneRefundInFlight ==
  \A o \in OrderIds :
    \A t \in BagToSet(promises), u \in BagToSet(promises) :
      (t.then = <<o>> /\ u.then = <<o>>) => (t = u /\ CopiesIn(t, promises) = 1)

\* C17: every stored record has completed = true and received_amount >=
\* amount; a stored record's amount, received_amount, payer and completed
\* flag change only when pay_order replaces the record.
C17_RecordInvariants ==
  [][/\ \A o \in DOMAIN orders' :
          /\ orders'[o].is_completed
          /\ orders'[o].received_amount >= orders'[o].amount
     /\ \A o \in DOMAIN orders :
          /\ o \in DOMAIN orders'
          /\ ~(PayCall(last') /\ last'.order_id = o)
               => (/\ orders'[o].amount = orders[o].amount
                   /\ orders'[o].received_amount = orders[o].received_amount
                   /\ orders'[o].payer_id = orders[o].payer_id
                   /\ orders'[o].is_completed = orders[o].is_completed
                   /\ orders'[o].created_at = orders[o].created_at)]_vars

\* A record that went through a refund and its rollback.
C17_Witness ==
  /\ CallbackCall(last) /\ last.results = <<"Failed">> /\ last.transfer # <<>>
  /\ Stored(last.order_id)
  /\ orders[last.order_id].is_completed
  /\ ~orders[last.order_id].is_refund
  /\ orders[last.order_id].received_amount >= orders[last.order_id].amount
  /\ orders[last.order_id].amount = last.transfer[1].amount

\* C13 (as stated): after transfer_callback has handled a failed transfer, the
\* next refund of that order by the owner is never refused; it sets the
\* refunded flag and issues a new transfer of order.amount to the payer.
C13_RetryIssuesTransfer ==
  \A o \in OrderIds :
    /\ audit.retry[o] # "refused"
    /\ audit.retry[o] = "retried"
         => (/\ RefundCall(last) /\ last.order_id = o
             /\ last.res.err = "none"
             /\ Stored(o) /\ orders[o].is_refund
             /\ last.transfer
                  = <<Transfer(orders[o].payer_id, orders[o].amount, <<o>>)>>)

\* C13 (amended): after transfer_callback has handled a failed transfer, the
\* next refund of that order by the owner is never refused; it sets the
\* refunded flag, and issues a new transfer of order.amount to the payer when
\* order.amount > 0; when pay_order has meanwhile replaced the record by one
\* of amount 0 it returns 0 and issues no transfer.
C13_RetryAccepted ==
  \A o \in OrderIds :
    /\ audit.retry[o] # "refused"
    /\ audit.retry[o] = "retried"
         => (/\ RefundCall(last) /\ last.order_id = o
             /\ last.res.err = "none"
             /\ Stored(o) /\ orders[o].is_refund
             /\ IF orders[o].amount > 0
                THEN /\ last.res = PromiseValue
                     /\ last.transfer
                          = <<Transfer(orders[o].payer_id, orders[o].amount, <<o>>)>>
                     /\ BagIn(last.transfer[1], promises)
                ELSE last.res = Value(0) /\ last.transfer = <<>>)

C13_Witness ==
  \E o \in OrderIds :
    /\ audit.retry[o] = "retried"
    /\ RefundCall(last) /\ last.res = PromiseValue
    /\ audit.marks[o] = 2 /\ audit.unmarks[o] = 1

\* C16 (as stated): after pay_order wrote it, a record sees at most one
\* refunded false -> true write and at most one refunded true -> false write.
C16_AtMostTwoMutations ==
  \A o \in OrderIds : audit.marks[o] <= 1 /\ audit.unmarks[o] <= 1

\* C16 (amended): after pay_order wrote it, a record changes only in its
\* refunded flag, false -> true by an accepted refund and true -> false by
\* transfer_callback on a failed transfer; the two kinds of write alternate
\* and each may occur more than once.
C16_OnlyRefundFlagWrites ==
  [][\A o \in DOMAIN orders :
       (/\ o \in DOMAIN orders'
        /\ orders'[o] # orders[o]
        /\ ~(PayCall(last') /\ last'.order_id = o))
       => (/\ orders'[o] = [orders[o] EXCEPT !.is_refund = ~orders[o].is_refund]
           /\ last'.order_id = o
           /\ \/ (/\ orders'[o].is_refund
                   /\ RefundCall(last') /\ last'.res.err = "none")
              \/ (/\ ~orders'[o].is_refund
                   /\ CallbackCall(last') /\ last'.results = <<"Failed">>
                   /\ last'.res = Value(orders[o].amount)))]_vars

C16_Witness ==
  \E o \in OrderIds :
    /\ audit.marks[o] = 2 /\ audit.unmarks[o] = 2
    /\ CallbackCall(last) /\ last.results = <<"Failed">> /\ last.order_id = o
    /\ Stored(o) /\ ~orders[o].is_refund

\* C19: of the refund transfers issued for one record written by pay_order,
\* at most one resolves Successful.
C19_NoDoubleRefund ==
  \A o \in OrderIds : audit.paid[o] <= 1

\* C20: the amounts of the refund transfers in flight, added to those of the
\* refund transfers that resolved Successful, never exceed the amounts
\* retained by the accepted pay_order calls.
C20_ValueConservation ==
  RefundAmount(promises, BagToSet(promises)) <= audit.net

\* C18: when the host resolves every transfer, an accepted refund that issued
\* a transfer is followed by the run of transfer_callback for that transfer,
\* which leaves the order refunded when the transfer succeeded and not
\* refunded when it failed.
C18_RefundReconciled ==
  \A t \in RefundTransfers :
    (RefundCall(last) /\ last.transfer = <<t>>)
      ~> (/\ CallbackCall(last) /\ last.transfer = <<t>>
          /\ last.res.err = "none"
          /\ Stored(t.then[1])
          /\ orders[t.then[1]].is_refund <=> last.results = <<"Successful">>)

\* The part of C18 about delivery alone: the continuation of the transfer
\* runs and does not panic.
C18_CallbackRuns ==
  \A t \in RefundTransfers :
    (RefundCall(last) /\ last.transfer = <<t>>)
      ~> (CallbackCall(last) /\ last.transfer = <<t>> /\ last.res.err = "none")
====
